---- MODULE Spec2Model ----
(***************************************************************************)
(* Model of scripts/fetch_tmdb_data.py: the retrying HTTP GET (safe_get),  *)
(* the two-call unit of work (fetch_by_id) and the enrichment run (main).  *)
(***************************************************************************)
EXTENDS Integers, Sequences, FiniteSets, TLC

\* ====== CONFIG (fetch_tmdb_data.py, lines 15-20) ======
MAX_WORKERS == 4
\* SAVE_INTERVAL is 200 in the script; the model scales it down so that the
\* periodic save happens within the bounded number of jobs
SAVE_INTERVAL == 2
MAX_RETRIES == 5
BACKOFF_BASE == 2

\* largest number of rows of the input table
MaxRows == 2

VARIABLES
    \* ---- safe_get ----
    sg_pc,       \* position in safe_get: "idle", "request", "sleep", "done"
    attempt,     \* loop variable of `for attempt in range(1, max_retries + 1)`
    wait,        \* current backoff value
    sleep_for,   \* argument of the time.sleep call in progress
    sg_ret,      \* what safe_get returned (or that it raised)
    sg_log,      \* history of requests.get calls and completed sleeps
    \* ---- main ----
    m_pc,          \* position in main: "idle", "start", "collect", "merge", "done", "crashed"
    df,            \* the input table read from INPUT_CSV
    progress_file, \* the checkpoint file TEMP_PROGRESS
    progress0,     \* history: the checkpoint file as main found it
    enriched,      \* the accumulated enrichment records
    done_ids,      \* identifiers loaded from the checkpoint
    futures,       \* future_to_job: one entry per submitted unit of work
    completed,     \* futures that have completed and that as_completed has yet to yield
    processed,     \* counter of the collecting loop
    output_file,   \* the merged table written to OUTPUT_CSV
    output0        \* history: the output file as main found it

sgvars == <<sg_pc, attempt, wait, sleep_for, sg_ret, sg_log>>
mvars == <<m_pc, df, progress_file, progress0, enriched, done_ids, futures, completed,
           processed, output_file, output0>>

\* ---------------------------------------------------------------------
\* Values exchanged with the HTTP layer
\* ---------------------------------------------------------------------

\* r.headers.get("Retry-After"): None when the header is absent, else its text
NoHeader == [present |-> FALSE, val |-> <<>>]
Header(chars) == [present |-> TRUE, val |-> chars]

\* header texts the server may send: empty, delay-seconds, or an HTTP-date
RetryAfterValues ==
    { NoHeader, Header(<<>>), Header(<<"0">>), Header(<<"3">>),
      Header(<<"1", "2">>), Header(<<"W", "e", "d">>) }

\* response bodies: a JSON document (identified by doc) or text that is no JSON
NoBody == [valid |-> FALSE, doc |-> 0]
JsonBody(d) == [valid |-> TRUE, doc |-> d]
\* documents a payload can be: 1 and 2 are non-empty objects, 3 is the empty object {}
Docs == {1, 2, 3}
Bodies == { JsonBody(d) : d \in Docs } \cup { NoBody }

\* statuses the server may answer besides 200 and 429
OtherStatuses == {204, 301, 401, 404}
ServerErrorStatuses == {500, 599}

Response(s, h, b) == [status |-> s, retry_after |-> h, body |-> b]
NoResp == Response(0, NoHeader, NoBody)

Responses ==
    { Response(200, NoHeader, b) : b \in Bodies }
    \cup { Response(429, h, NoBody) : h \in RetryAfterValues }
    \cup { Response(s, NoHeader, NoBody) : s \in OtherStatuses \cup ServerErrorStatuses }

\* entries of the history: o is the outcome of one requests.get call, a
\* RequestException (exc) or a response
GetEv(o) == [kind |-> "get", exc |-> o.exc, r |-> o.r, secs |-> 0]
SleepEv(n) == [kind |-> "sleep", exc |-> FALSE, r |-> NoResp, secs |-> n]

\* return values of safe_get
RetNone == [kind |-> "none", doc |-> 0]
RetPayload(d) == [kind |-> "payload", doc |-> d]
RetRaised == [kind |-> "raised", doc |-> 0]
RetRunning == [kind |-> "running", doc |-> 0]

\* ---------------------------------------------------------------------
\* Pure helpers of safe_get
\* ---------------------------------------------------------------------

Digits == {"0", "1", "2", "3", "4", "5", "6", "7", "8", "9"}

DigitVal(c) ==
    CASE c = "0" -> 0 [] c = "1" -> 1 [] c = "2" -> 2 [] c = "3" -> 3 [] c = "4" -> 4
      [] c = "5" -> 5 [] c = "6" -> 6 [] c = "7" -> 7 [] c = "8" -> 8 [] c = "9" -> 9

\* int(text) succeeds on a non-empty run of decimal digits, else ValueError
IsIntText(chars) == Len(chars) > 0 /\ \A i \in 1..Len(chars) : chars[i] \in Digits

RECURSIVE PyInt(_)
PyInt(chars) ==
    IF Len(chars) = 0 THEN 0
    ELSE 10 * PyInt(SubSeq(chars, 1, Len(chars) - 1)) + DigitVal(chars[Len(chars)])

\* truth value of `retry_after` (None and "" are falsy)
Truthy(h) == h.present /\ Len(h.val) > 0

\* line 44, mutated: the fixed margin is left out
SleepForRetryAfterNoMargin(h) == PyInt(h.val)

\* line 44: sleep_for = int(retry_after) + 1
SleepForRetryAfter(h) == PyInt(h.val) + 1

\* line 51, mutated: every status from 300 up is retried
IsServerErrorWide(s) == 300 <= s /\ s < 600

\* line 51: 500 <= r.status_code < 600
IsServerError(s) == 500 <= s /\ s < 600

\* line 39, mutated: the payload is dropped
OnOkDropped(r) == RetNone

\* line 39: return r.json()  (r.json() raises when the body is no JSON)
OnOk(r) == IF r.body.valid THEN RetPayload(r.body.doc) ELSE RetRaised

\* lines 35/49/55, mutated: additive growth
NextWaitAdd(w) == w + BACKOFF_BASE

\* lines 35, 49, 55: wait *= BACKOFF_BASE
NextWait(w) == w * BACKOFF_BASE

\* line 31: attempt == max_retries
IsFinalAttempt(a) == a = MAX_RETRIES

\* line 26: range(1, max_retries + 1) is exhausted after attempt max_retries
LoopExhausted(a) == a = MAX_RETRIES

\* ---------------------------------------------------------------------
\* safe_get (lines 23-60)
\* ---------------------------------------------------------------------

SG_Init ==
    /\ sg_pc = "request"
    /\ attempt = 1
    /\ wait = 1
    /\ sleep_for = 0
    /\ sg_ret = RetRunning
    /\ sg_log = <<>>

SG_Return(v) ==
    /\ sg_pc' = "done"
    /\ sg_ret' = v
    /\ UNCHANGED <<attempt, wait, sleep_for>>

SG_StartSleep(d) ==
    /\ sg_pc' = "sleep"
    /\ sleep_for' = d
    /\ UNCHANGED <<attempt, wait, sg_ret>>

\* lines 27-36: requests.get raised RequestException
SG_RequestException ==
    /\ sg_pc = "request"
    /\ sg_log' = Append(sg_log, GetEv([exc |-> TRUE, r |-> NoResp]))
    /\ IF IsFinalAttempt(attempt)
         THEN SG_Return(RetNone)
         ELSE SG_StartSleep(wait)

\* lines 27-28, 38-59: requests.get returned a response, which is classified
SG_Response ==
    /\ sg_pc = "request"
    /\ \E r \in Responses :
         /\ sg_log' = Append(sg_log, GetEv([exc |-> FALSE, r |-> r]))
         /\ IF r.status = 200 THEN SG_Return(OnOk(r))
            ELSE IF r.status = 429 THEN
                 IF Truthy(r.retry_after)
                   THEN IF IsIntText(r.retry_after.val)
                          THEN SG_StartSleep(SleepForRetryAfter(r.retry_after))
                          ELSE SG_Return(RetRaised)
                   ELSE SG_StartSleep(wait)
            ELSE IF IsServerError(r.status) THEN SG_StartSleep(wait)
            ELSE SG_Return(RetNone)

\* lines 34-36, 48-50, 54-56, 60: the sleep ends, the backoff grows, the loop
\* continues, and returns None once the range is exhausted
SG_SleepDone ==
    /\ sg_pc = "sleep"
    /\ sg_log' = Append(sg_log, SleepEv(sleep_for))
    /\ wait' = NextWait(wait)
    /\ sleep_for' = 0
    /\ IF LoopExhausted(attempt)
         THEN /\ sg_pc' = "done"
              /\ sg_ret' = RetNone
              /\ attempt' = attempt
         ELSE /\ sg_pc' = "request"
              /\ attempt' = attempt + 1
              /\ sg_ret' = sg_ret

\* ---------------------------------------------------------------------
\* Table values
\* ---------------------------------------------------------------------

\* a cell: missing (NaN / None) or an integer
Na == [na |-> TRUE, v |-> 0]
Val(x) == [na |-> FALSE, v |-> x]

RECURSIVE GCD(_, _)
GCD(a, b) == IF b = 0 THEN a ELSE GCD(b, a % b)

\* a float cell holding the quotient n / d (d > 0), kept in lowest terms
NaR == [na |-> TRUE, num |-> 0, den |-> 1]
ValR(n, d) == [na |-> FALSE, num |-> n \div GCD(n, d), den |-> d \div GCD(n, d)]

\* a float cell holding math.log1p(x)
NaL == [na |-> TRUE, log1p_of |-> 0]
ValL(x) == [na |-> FALSE, log1p_of |-> x]

Row(i, b, r, d, t) ==
    [id |-> i, budget |-> b, revenue |-> r, director_encoded |-> d,
     top_cast_avg_rating |-> t]

\* rows the input table is made of: missing budget, missing revenue, missing
\* both, complete (with a zero budget), and a row without identifier
InputRows ==
    { Row(Val(1), Na, Val(1000), Val(8), NaR),
      Row(Val(1), Val(500), Na, Na, NaR),
      Row(Val(2), Na, Na, Na, NaR),
      Row(Val(1), Val(0), Val(1000), Val(8), ValR(4, 1)),
      Row(Na, Na, Val(1000), Na, NaR) }

RECURSIVE SeqsUpTo(_, _)
SeqsUpTo(S, n) ==
    IF n = 0 THEN { <<>> }
    ELSE LET shorter == SeqsUpTo(S, n - 1)
         IN  shorter \cup { Append(q, x) : q \in shorter, x \in S }

\* a table with more jobs than the save interval: three rows that miss both
\* fields, with distinct identifiers
WideTable ==
    << Row(Val(1), Na, Na, Na, NaR), Row(Val(2), Na, Na, Na, NaR),
       Row(Val(3), Na, Na, Na, NaR) >>

InputTables == (SeqsUpTo(InputRows, MaxRows) \ { <<>> }) \cup { WideTable }

\* a record of the enrichment supplement (lines 96-102)
EnrichRec(i, b, r, d, t) ==
    [id |-> Val(i), budget |-> b, revenue |-> r, director_encoded |-> d,
     top_cast_avg_rating |-> t]
NoRec == EnrichRec(0, Na, Na, Na, NaR)

\* files: absent, or present with rows
NoFile == [exists |-> FALSE, rows |-> <<>>]
File(rows) == [exists |-> TRUE, rows |-> rows]

\* checkpoint files an earlier run can have left: none, one written with no
\* record, one with a record of the input, one with a record of an identifier
\* that the input table (no longer) has
ProgressFiles ==
    { NoFile,
      File(<<>>),
      File(<< EnrichRec(1, Val(700), Val(900), Val(7), ValR(5, 1)) >>),
      File(<< EnrichRec(1, Val(700), Val(900), Val(7), ValR(5, 1)),
              EnrichRec(3, Val(0), Val(0), Na, NaR) >>) }

\* ---------------------------------------------------------------------
\* fetch_by_id (lines 62-102)
\* ---------------------------------------------------------------------

\* the detail documents the API can answer
DetailsDoc(d) ==
    CASE d = 1 -> [budget |-> Val(500), revenue |-> Val(2000)]
      [] d = 2 -> [budget |-> Val(0), revenue |-> Na]
      [] OTHER -> [budget |-> Na, revenue |-> Na]

\* the credits documents the API can answer; a cast entry is its popularity,
\* Na when the key is missing
CreditsDoc(d) ==
    CASE d = 1 -> [crew |-> << [job |-> "Producer", name |-> Val(9)],
                               [job |-> "Director", name |-> Val(7)],
                               [job |-> "Director", name |-> Val(6)] >>,
                   cast |-> << Val(3), Na, Val(8), Val(100) >>]
      [] OTHER -> [crew |-> << [job |-> "Producer", name |-> Val(9)] >>, cast |-> <<>>]

\* truth value of a payload: the empty dict is falsy
TruthyDoc(d) == d # 3

\* what a call of safe_get can give back to its caller
SafeGetReturns == { RetNone, RetRaised } \cup { RetPayload(d) : d \in Docs }

\* lines 83-87: name of the first crew entry whose job is "Director"
Director(credits) ==
    LET idx == { i \in 1..Len(credits.crew) : credits.crew[i].job = "Director" }
    IN  IF idx = {} THEN Na
        ELSE credits.crew[CHOOSE i \in idx : \A j \in idx : i <= j].name

RECURSIVE SumPopularity(_)
SumPopularity(cs) ==
    IF Len(cs) = 0 THEN 0
    ELSE (IF cs[1].na THEN 0 ELSE cs[1].v) + SumPopularity(Tail(cs))

\* lines 90-94: average popularity of the first three cast entries
TopCastAvg(credits) ==
    LET top_cast == SubSeq(credits.cast, 1, IF Len(credits.cast) < 3 THEN Len(credits.cast) ELSE 3)
    IN  IF Len(top_cast) = 0 THEN NaR
        ELSE ValR(SumPopularity(top_cast), Len(top_cast))

\* lines 96-102: the record a unit of work returns
BuildRecord(movie_id, details, credits) ==
    [id |-> Val(movie_id),
     budget |-> details.budget,
     revenue |-> details.revenue,
     director_encoded |-> Director(credits),
     top_cast_avg_rating |-> TopCastAvg(credits)]

\* results of a future
ResPending == [kind |-> "pending", rec |-> NoRec]
ResNone == [kind |-> "none", rec |-> NoRec]
ResExc == [kind |-> "exc", rec |-> NoRec]
ResRec(r) == [kind |-> "rec", rec |-> r]

\* what a unit sees of a value returned by safe_get: its kind and truth value
Seen(ret) == [kind |-> ret.kind, truthy |-> ret.kind = "payload" /\ TruthyDoc(ret.doc)]

\* rets is the history of what the unit's safe_get calls returned; details is
\* the unit's local variable, gone when the unit returns
Future(i) == [id |-> i, st |-> "queued", details |-> 0, rets |-> <<>>, res |-> ResPending]

Running == { i \in 1..Len(futures) : futures[i].st \in {"details", "credits"} }

Finish(i, ret, res) ==
    /\ futures' = [futures EXCEPT ![i].st = "finished", ![i].res = res,
                                  ![i].details = 0,
                                  ![i].rets = Append(@, Seen(ret))]
    /\ completed' = Append(completed, i)

\* a pool thread takes the unit from the queue
W_Start(i) ==
    /\ m_pc = "collect"
    /\ futures[i].st = "queued"
    /\ Cardinality(Running) < MAX_WORKERS
    /\ futures' = [futures EXCEPT ![i].st = "details"]
    /\ UNCHANGED completed

\* lines 68-73: the detail call
W_Details(i) ==
    /\ m_pc = "collect"
    /\ futures[i].st = "details"
    /\ \E ret \in SafeGetReturns :
         IF ret = RetRaised THEN Finish(i, ret, ResExc)
         ELSE IF ret = RetNone \/ ~TruthyDoc(ret.doc) THEN Finish(i, ret, ResNone)
         ELSE /\ futures' = [futures EXCEPT ![i].st = "credits", ![i].details = ret.doc,
                                           ![i].rets = Append(@, Seen(ret))]
              /\ UNCHANGED completed

\* lines 76-102: the credits call and the record
W_Credits(i) ==
    /\ m_pc = "collect"
    /\ futures[i].st = "credits"
    /\ \E ret \in SafeGetReturns :
         IF ret = RetRaised THEN Finish(i, ret, ResExc)
         ELSE IF ret = RetNone \/ ~TruthyDoc(ret.doc) THEN Finish(i, ret, ResNone)
         ELSE Finish(i, ret, ResRec(BuildRecord(futures[i].id,
                                                DetailsDoc(futures[i].details),
                                                CreditsDoc(ret.doc))))

\* ---------------------------------------------------------------------
\* main (lines 119-231)
\* ---------------------------------------------------------------------

\* to_csv, mutated: only the newest record is written
WriteCsvLast(records) ==
    File(IF Len(records) = 0 THEN <<>> ELSE << records[Len(records)] >>)

\* pd.DataFrame(enriched).to_csv(TEMP_PROGRESS): the file is rewritten whole
WriteCsv(records) == File(records)

\* pd.read_csv raises EmptyDataError on a file written from an empty frame
CanReadCsv(f) == Len(f.rows) > 0

\* line 132, mutated: only the rows missing both
NeedsEnrichBoth(row) == row.budget.na /\ row.revenue.na

\* line 132: the rows missing budget or revenue
NeedsEnrich(row) == row.budget.na \/ row.revenue.na

\* lines 136-142: the identifier of every task (Na for None)
RECURSIVE Tasks(_)
Tasks(table) ==
    IF Len(table) = 0 THEN <<>>
    ELSE (IF NeedsEnrich(table[1]) THEN << table[1].id >> ELSE <<>>) \o Tasks(Tail(table))

\* line 150: the identifiers of the loaded records
DoneIds(records) == { records[k].id.v : k \in { j \in 1..Len(records) : ~records[j].id.na } }

\* line 157, mutated: nothing is skipped
IsDoneNever(t, done) == FALSE

\* line 157: t["id"] is not None and t["id"] in done_ids
IsDone(t, done) == ~t.na /\ t.v \in done

\* lines 155-184: one future per task that is not done and has an identifier
\* (FALLBACK_SEARCH is False, line 20: a task without identifier is skipped)
RECURSIVE Submit(_, _)
Submit(tasks, done) ==
    IF Len(tasks) = 0 THEN <<>>
    ELSE (IF IsDone(tasks[1], done) THEN <<>>
          ELSE IF ~tasks[1].na THEN << Future(tasks[1].v) >>
          ELSE <<>>) \o Submit(Tail(tasks), done)

\* line 216, how="left": per input row, one pair per enrichment record of the
\* same identifier, in order, or one pair without record (enr = 0)
RECURSIVE Matches(_, _, _)
Matches(row, en, j) ==
    IF j > Len(en) THEN <<>>
    ELSE (IF ~row.id.na /\ en[j].id = row.id THEN << j >> ELSE <<>>) \o Matches(row, en, j + 1)

\* line 216, mutated: how="inner"
RECURSIVE JoinInner(_, _, _)
JoinInner(table, en, i) ==
    IF i > Len(table) THEN <<>>
    ELSE LET ms == Matches(table[i], en, 1)
         IN  [k \in 1..Len(ms) |-> [src |-> i, enr |-> ms[k]]] \o JoinInner(table, en, i + 1)

RECURSIVE JoinLeft(_, _, _)
JoinLeft(table, en, i) ==
    IF i > Len(table) THEN <<>>
    ELSE LET ms == Matches(table[i], en, 1)
         IN  (IF Len(ms) = 0 THEN << [src |-> i, enr |-> 0] >>
              ELSE [k \in 1..Len(ms) |-> [src |-> i, enr |-> ms[k]]])
             \o JoinLeft(table, en, i + 1)

\* line 220, mutated: the enrichment value wins
CombineFirstReversed(orig, new) == IF ~new.na THEN new ELSE orig

\* line 220: merged[col].combine_first(merged[col + "_new"])
CombineFirst(orig, new) == IF ~orig.na THEN orig ELSE new

\* lines 224-225, mutated: zero is let through
LogColNonNegative(x) == IF ~x.na /\ x.v >= 0 THEN ValL(x.v) ELSE NaL

\* lines 224-225: log1p of a present, positive value
LogCol(x) == IF ~x.na /\ x.v > 0 THEN ValL(x.v) ELSE NaL

\* float division: NaN / x is NaN
Div(a, b) == IF a.na THEN NaR ELSE ValR(a.v, b.v)

\* line 226, mutated: a missing revenue counts as 0
ProfitRatioZeroFilled(budget, revenue) ==
    IF ~budget.na /\ budget.v > 0
      THEN ValR(IF revenue.na THEN 0 ELSE revenue.v, budget.v)
      ELSE NaR

\* line 226: revenue / budget when budget is present and positive, else None
ProfitRatio(budget, revenue) ==
    IF ~budget.na /\ budget.v > 0 THEN Div(revenue, budget) ELSE NaR

\* lines 216-226: one merged row; src and enr record where it comes from
MergedRow(table, en, p) ==
    LET orig == table[p.src]
        new == IF p.enr = 0 THEN NoRec ELSE en[p.enr]
        budget == CombineFirst(orig.budget, new.budget)
        revenue == CombineFirst(orig.revenue, new.revenue)
    IN  [src |-> p.src, enr |-> p.enr,
         id |-> orig.id,
         budget |-> budget,
         revenue |-> revenue,
         director_encoded |-> CombineFirst(orig.director_encoded, new.director_encoded),
         top_cast_avg_rating |-> CombineFirst(orig.top_cast_avg_rating, new.top_cast_avg_rating),
         budget_log |-> LogCol(budget),
         revenue_log |-> LogCol(revenue),
         profit_ratio |-> ProfitRatio(budget, revenue)]

MergedTable(table, en) ==
    LET pairs == JoinLeft(table, en, 1)
    IN  [k \in 1..Len(pairs) |-> MergedRow(table, en, pairs[k])]

\* an output file left by an earlier run
StaleOutput ==
    File(<< [src |-> 0, enr |-> 0, id |-> Val(9), budget |-> Val(1), revenue |-> Val(1),
             director_encoded |-> Na, top_cast_avg_rating |-> NaR,
             budget_log |-> ValL(1), revenue_log |-> ValL(1),
             profit_ratio |-> ValR(1, 1)] >>)

\* the output file main can find: none, or (looked at for the one-row tables)
\* the one of an earlier run
OutputFiles(table) == IF Len(table) = 1 THEN { NoFile, StaleOutput } ELSE { NoFile }

\* line 191, mutated: the except clause matches nothing that a unit raises
CatchesNothing(res) == FALSE

\* line 191: except Exception matches whatever future.result() re-raises
Catches(res) == res.kind = "exc"

\* lines 189-193: the result of a future; a caught exception counts as None
ResultOf(fut) == IF Catches(fut.res) THEN ResNone ELSE fut.res

\* lines 195-196, mutated: whatever the future gave is appended
AccumulateAlways(acc, res) == Append(acc, res.rec)

\* lines 195-196: if res: enriched.append(res)
Accumulate(acc, res) == IF res.kind = "rec" THEN Append(acc, res.rec) ELSE acc

\* line 200, mutated: the periodic save never happens
SaveDueNever(n) == FALSE

\* line 200: processed % SAVE_INTERVAL == 0
SaveDue(n) == n % SAVE_INTERVAL = 0

\* line 187, mutated: the loop can be left at any time
LoopOverAnyTime(n, futs) == TRUE

\* line 187: as_completed is exhausted once every future has been yielded
LoopOver(n, futs) == n = Len(futs)

\* line 211, mutated: the merge is done whatever the list holds
HasEnrichmentAlways(en) == TRUE

\* line 211: len(enriched) > 0
HasEnrichment(en) == Len(en) > 0

M_Init ==
    /\ m_pc = "start"
    /\ df \in InputTables
    /\ progress_file \in ProgressFiles
    /\ progress0 = progress_file
    /\ enriched = <<>>
    /\ done_ids = {}
    /\ futures = <<>>
    /\ completed = <<>>
    /\ processed = 0
    /\ output_file \in OutputFiles(df)
    /\ output0 = output_file

\* lines 120-184: read the input, load the checkpoint, submit the jobs
M_Load ==
    /\ m_pc = "start"
    /\ IF progress_file.exists /\ ~CanReadCsv(progress_file)
         THEN /\ m_pc' = "crashed"
              /\ UNCHANGED <<enriched, done_ids, futures>>
         ELSE /\ m_pc' = "collect"
              /\ enriched' = IF progress_file.exists THEN progress_file.rows ELSE <<>>
              /\ done_ids' = DoneIds(enriched')
              /\ futures' = Submit(Tasks(df), done_ids')
    /\ UNCHANGED <<df, progress_file, progress0, completed, processed, output_file, output0>>

\* lines 187-204: one iteration of the collecting loop
M_Collect ==
    /\ m_pc = "collect"
    /\ Len(completed) > 0
    /\ LET fut == futures[Head(completed)]
           res == ResultOf(fut)
       IN  IF res.kind = "exc"
             THEN /\ m_pc' = "crashed"
                  /\ UNCHANGED <<enriched, processed, progress_file, completed>>
             ELSE /\ enriched' = Accumulate(enriched, res)
                  /\ processed' = processed + 1
                  /\ progress_file' = IF SaveDue(processed')
                                        THEN WriteCsv(enriched')
                                        ELSE progress_file
                  /\ completed' = Tail(completed)
                  /\ UNCHANGED m_pc
    /\ UNCHANGED <<df, progress0, done_ids, futures, output_file, output0>>

\* lines 206-208: the loop is over, final save of progress
M_FinalSave ==
    /\ m_pc = "collect"
    /\ LoopOver(processed, futures)
    /\ progress_file' = WriteCsv(enriched)
    /\ m_pc' = "merge"
    /\ UNCHANGED <<df, progress0, enriched, done_ids, futures, completed, processed,
                   output_file, output0>>

\* lines 210-231: merge, recompute the engineered columns, write the output
M_Merge ==
    /\ m_pc = "merge"
    /\ output_file' = IF HasEnrichment(enriched)
                        THEN File(MergedTable(df, enriched))
                        ELSE output_file
    /\ m_pc' = "done"
    /\ UNCHANGED <<df, progress_file, progress0, enriched, done_ids, futures, completed,
                   processed, output0>>

\* what the pool threads leave alone
W_Frame ==
    UNCHANGED <<m_pc, df, progress_file, progress0, enriched, done_ids, processed,
                output_file, output0>>

\* ---------------------------------------------------------------------
\* Specifications
\* ---------------------------------------------------------------------

vars == <<sgvars, mvars>>

\* while safe_get is studied, main is not running
M_Idle ==
    /\ m_pc = "idle"
    /\ df = <<>>
    /\ progress_file = NoFile
    /\ progress0 = NoFile
    /\ enriched = <<>>
    /\ done_ids = {}
    /\ futures = <<>>
    /\ completed = <<>>
    /\ processed = 0
    /\ output_file = NoFile
    /\ output0 = NoFile

\* while main is studied, each safe_get call is summarised by its return value
SG_Idle ==
    /\ sg_pc = "idle"
    /\ attempt = 0
    /\ wait = 0
    /\ sleep_for = 0
    /\ sg_ret = RetRunning
    /\ sg_log = <<>>

InitGet == SG_Init /\ M_Idle

NextGet ==
    \/ SG_RequestException /\ UNCHANGED mvars
    \/ SG_Response /\ UNCHANGED mvars
    \/ SG_SleepDone /\ UNCHANGED mvars

SpecGet == InitGet /\ [][NextGet]_vars

\* safe_get runs on a thread that is always scheduled again: each step that is
\* enabled (a request returning, a sleep ending) eventually happens
SpecGetFair == SpecGet /\ WF_vars(NextGet)

InitMain == M_Init /\ SG_Idle

NextMain ==
    \/ M_Load /\ UNCHANGED sgvars
    \/ M_Collect /\ UNCHANGED sgvars
    \/ M_FinalSave /\ UNCHANGED sgvars
    \/ M_Merge /\ UNCHANGED sgvars
    \/ \E i \in 1..Len(futures) : W_Start(i) /\ W_Frame /\ UNCHANGED sgvars
    \/ \E i \in 1..Len(futures) : W_Details(i) /\ W_Frame /\ UNCHANGED sgvars
    \/ \E i \in 1..Len(futures) : W_Credits(i) /\ W_Frame /\ UNCHANGED sgvars

SpecMain == InitMain /\ [][NextMain]_vars

\* the runs on the three-unit table
InitWide == InitMain /\ df = WideTable

\* the main thread and the pool threads keep being scheduled, and every call
\* of safe_get returns (C3_Terminates): a step that is enabled happens
SpecMainFair == InitWide /\ [][NextMain]_vars /\ WF_vars(NextMain)

\* ---------------------------------------------------------------------
\* Properties of safe_get
\* ---------------------------------------------------------------------

RECURSIVE Pow(_, _)
Pow(b, e) == IF e = 0 THEN 1 ELSE b * Pow(b, e - 1)

GetIdx == { i \in 1..Len(sg_log) : sg_log[i].kind = "get" }
NumGets == Cardinality(GetIdx)
NumGetsBefore(i) == Cardinality({ j \in GetIdx : j < i })
IsRespAt(i) == sg_log[i].kind = "get" /\ ~sg_log[i].exc

\* a response that is neither 200, nor 429, nor 5xx
IsOtherAt(i) ==
    /\ IsRespAt(i)
    /\ sg_log[i].r.status \notin {200, 429}
    /\ (sg_log[i].r.status < 500 \/ sg_log[i].r.status >= 600)

\* C1: a response whose status is none of 200, 429, 5xx ends safe_get at once
\* with None: nothing (no request, no sleep) follows it, no sleep is in
\* progress, and when it is the first response exactly one request was made.
C1_OtherStatusReturnsNoneAtOnce ==
    \A i \in 1..Len(sg_log) :
        IsOtherAt(i) =>
            /\ i = Len(sg_log)
            /\ sg_pc = "done"
            /\ sg_ret = RetNone
            /\ sleep_for = 0
            /\ (i = 1 => NumGets = 1)

C1_Witness ==
    /\ sg_pc = "done"
    /\ Len(sg_log) >= 3
    /\ IsOtherAt(Len(sg_log))
    /\ sg_log[Len(sg_log)].r.status = 301

\* C2: at every attempt number and after any history of transient failures, a
\* 200 response ends safe_get at once with that response's parsed payload:
\* nothing follows it in the history and no sleep is in progress.
C2_OkReturnsPayloadAtOnce ==
    \A i \in 1..Len(sg_log) :
        (IsRespAt(i) /\ sg_log[i].r.status = 200 /\ sg_log[i].r.body.valid) =>
            /\ i = Len(sg_log)
            /\ sg_pc = "done"
            /\ sg_ret = RetPayload(sg_log[i].r.body.doc)
            /\ sleep_for = 0
            /\ NumGets = attempt

C2_Witness ==
    /\ sg_pc = "done"
    /\ attempt = MAX_RETRIES
    /\ sg_ret = RetPayload(2)
    /\ \E i \in 1..Len(sg_log) : sg_log[i].kind = "get" /\ sg_log[i].exc
    /\ \E i \in 1..Len(sg_log) : IsRespAt(i) /\ sg_log[i].r.status = 429

\* an attempt that ended in a transient failure: transport exception, 429, 5xx
IsTransientAt(i) ==
    /\ sg_log[i].kind = "get"
    /\ \/ sg_log[i].exc
       \/ sg_log[i].r.status = 429
       \/ (500 <= sg_log[i].r.status /\ sg_log[i].r.status < 600)

\* C3: whatever the outcomes, at most max_retries requests are issued, and a run
\* whose max_retries attempts all ended in a transient failure returns None
\* (it does not raise).
C3_BoundedAttemptsThenNone ==
    /\ NumGets <= MAX_RETRIES
    /\ (sg_pc = "done" /\ NumGets = MAX_RETRIES /\ \A i \in GetIdx : IsTransientAt(i))
          => sg_ret = RetNone

\* the part of C3 the code keeps: the attempt bound, and None whenever no
\* Retry-After text failed to parse
C3_BoundedAttempts ==
    /\ NumGets <= MAX_RETRIES
    /\ attempt <= MAX_RETRIES
    /\ (sg_pc = "done" /\ NumGets = MAX_RETRIES /\ \A i \in GetIdx : IsTransientAt(i))
          => sg_ret \in {RetNone, RetRaised}

\* every run of safe_get ends (by returning or by raising)
C3_Terminates == <>(sg_pc = "done")

\* a 429 response whose Retry-After header is an integer n
IsRetryAfterIntAt(i) ==
    /\ IsRespAt(i)
    /\ sg_log[i].r.status = 429
    /\ sg_log[i].r.retry_after.present
    /\ IsIntText(sg_log[i].r.retry_after.val)

\* C4: after a 429 with Retry-After: n the next thing safe_get does is a sleep
\* of n + 1 seconds; while that sleep is in progress no request can be issued,
\* so any next request comes after it.
C4_RetryAfterSleptBeforeRetry ==
    \A i \in 1..Len(sg_log) :
        IsRetryAfterIntAt(i) =>
            LET n == PyInt(sg_log[i].r.retry_after.val) IN
            IF i = Len(sg_log)
              THEN sg_pc = "sleep" /\ sleep_for >= n + 1 /\ ~ENABLED SG_Response
                   /\ ~ENABLED SG_RequestException
              ELSE sg_log[i + 1].kind = "sleep" /\ sg_log[i + 1].secs >= n + 1

C4_Witness ==
    \E i \in 1..Len(sg_log) :
        /\ IsRetryAfterIntAt(i)
        /\ PyInt(sg_log[i].r.retry_after.val) = 12
        /\ i + 2 <= Len(sg_log)
        /\ sg_log[i + 1] = SleepEv(13)
        /\ sg_log[i + 2].kind = "get"

\* a transient failure answered with the backoff value: transport exception,
\* 5xx, or 429 without a usable Retry-After
IsBackoffFailureAt(i) ==
    /\ sg_log[i].kind = "get"
    /\ \/ sg_log[i].exc
       \/ (500 <= sg_log[i].r.status /\ sg_log[i].r.status < 600)
       \/ (sg_log[i].r.status = 429 /\ ~Truthy(sg_log[i].r.retry_after))

\* C5: the backoff value is BACKOFF_BASE^(attempt-1) at every attempt, also
\* after 429s answered with their Retry-After value, and the sleep after the
\* k-th failure, when it uses the backoff, lasts BACKOFF_BASE^(k-1) seconds.
C5_BackoffDoubles ==
    /\ sg_pc \in {"request", "sleep"} => wait = Pow(BACKOFF_BASE, attempt - 1)
    /\ \A i \in 2..Len(sg_log) :
          (sg_log[i].kind = "sleep" /\ IsBackoffFailureAt(i - 1)) =>
              sg_log[i].secs = Pow(BACKOFF_BASE, NumGetsBefore(i) - 1)
    /\ (sg_pc = "sleep" /\ IsBackoffFailureAt(Len(sg_log))) =>
          sleep_for = Pow(BACKOFF_BASE, NumGets - 1)

C5_Witness ==
    /\ Len(sg_log) = 2 * MAX_RETRIES
    /\ IsRetryAfterIntAt(3)
    /\ sg_log[4].secs = 4
    /\ sg_log[2] = SleepEv(1)
    /\ sg_log[6] = SleepEv(4)
    /\ sg_log[2 * MAX_RETRIES] = SleepEv(16)

\* the summary of safe_get that the units of work use covers all its returns
SG_ReturnsSummarised == sg_pc = "done" => sg_ret \in SafeGetReturns

\* ---------------------------------------------------------------------
\* Properties of main
\* ---------------------------------------------------------------------

IdsOf(records) == { records[k].id.v : k \in { j \in 1..Len(records) : ~records[j].id.na } }
FetchedIds == { futures[i].id : i \in 1..Len(futures) }
OutRows == output_file.rows
\* the output file was written by this run
OutputWritten == output_file.exists /\ output_file # output0
RowsWithId(x) == { k \in 1..Len(OutRows) : OutRows[k].id = Val(x) }
EnrichedWithId(x) == { j \in 1..Len(enriched) : enriched[j].id = Val(x) }

\* C6: in a run that found a checkpoint file, no identifier of that checkpoint
\* is submitted to fetch_by_id.
C6_CheckpointIdsNotRefetched ==
    progress0.exists => FetchedIds \cap IdsOf(progress0.rows) = {}

C6_Witness ==
    /\ m_pc = "done"
    /\ progress0.exists
    /\ FetchedIds = {2}
    /\ \E i \in 1..Len(df) : df[i].id = Val(1) /\ df[i].budget.na
    /\ 1 \in IdsOf(progress0.rows)

\* C7: when the accumulated enrichment list holds more than one record for an
\* identifier, the merged table written by main has one row for it.
C7_EnrichmentDuplicatesCollapse ==
    OutputWritten =>
        \A x \in IdsOf(enriched) :
            Cardinality(EnrichedWithId(x)) > 1 => Cardinality(RowsWithId(x)) <= 1

Cols == {"budget", "revenue", "director_encoded", "top_cast_avg_rating"}

\* C8: in every merged row each of the four columns holds the input row's
\* value when that is present, and otherwise the value of the enrichment record
\* joined to it (missing when there is none); hence a row whose four original
\* values are present keeps them.
C8_FirstNonMissingWins ==
    OutputWritten =>
        \A k \in 1..Len(OutRows) :
            LET m == OutRows[k]
                orig == df[m.src]
            IN  /\ m.id = orig.id
                /\ m.enr # 0 => enriched[m.enr].id = orig.id
                /\ \A col \in Cols :
                      IF ~orig[col].na THEN m[col] = orig[col]
                      ELSE IF m.enr = 0 THEN m[col].na
                      ELSE m[col] = enriched[m.enr][col]

C8_Witness ==
    /\ OutputWritten
    /\ \E k \in 1..Len(OutRows) :
          /\ OutRows[k].enr # 0
          /\ df[OutRows[k].src].budget.na
          /\ df[OutRows[k].src].revenue = Val(1000)
          /\ enriched[OutRows[k].enr].budget = Val(500)
          /\ enriched[OutRows[k].enr].revenue = Val(2000)
          /\ OutRows[k].budget = Val(500)
          /\ OutRows[k].revenue = Val(1000)
    /\ \E k \in 1..Len(OutRows) :
          /\ OutRows[k].enr # 0
          /\ \A col \in Cols : ~df[OutRows[k].src][col].na
          /\ enriched[OutRows[k].enr].director_encoded = Val(7)
          /\ OutRows[k].director_encoded = Val(8)

\* C9 as stated: every identifier of the input table or of the accumulated
\* enrichment records occurs in the merged table.
C9_UnionOfIdentifiers ==
    OutputWritten => (IdsOf(df) \cup IdsOf(enriched)) \subseteq IdsOf(OutRows)

\* C9 amended: the merged table is the left join: it has at least one row per
\* input row and exactly the identifiers of the input table; an enrichment
\* record whose identifier the input table lacks contributes no row.
C9_LeftJoinOfIdentifiers ==
    OutputWritten =>
        /\ { OutRows[k].id : k \in 1..Len(OutRows) } = { df[i].id : i \in 1..Len(df) }
        /\ \A i \in 1..Len(df) : \E k \in 1..Len(OutRows) : OutRows[k].src = i
        /\ IdsOf(df) \subseteq IdsOf(OutRows)

C9_Witness ==
    /\ OutputWritten
    /\ 3 \in IdsOf(enriched)
    /\ 3 \notin IdsOf(OutRows)
    /\ \E k \in 1..Len(OutRows) : OutRows[k].enr = 0 /\ ~OutRows[k].id.na
    /\ \E k \in 1..Len(OutRows) : OutRows[k].enr # 0

\* C10: in every merged row the ratio is present exactly when budget and
\* revenue are present and the budget is positive, and then it is
\* revenue / budget.
C10_ProfitRatio ==
    OutputWritten =>
        \A k \in 1..Len(OutRows) :
            LET m == OutRows[k] IN
            /\ ~m.profit_ratio.na <=> (~m.budget.na /\ ~m.revenue.na /\ m.budget.v > 0)
            /\ ~m.profit_ratio.na =>
                  /\ m.profit_ratio.den > 0
                  /\ m.profit_ratio.num * m.budget.v = m.revenue.v * m.profit_ratio.den

C10_Witness ==
    /\ OutputWritten
    /\ \E k \in 1..Len(OutRows) :
          /\ OutRows[k].budget = Val(500) /\ OutRows[k].revenue = Val(1000)
          /\ df[OutRows[k].src].budget.na
          /\ OutRows[k].profit_ratio = [na |-> FALSE, num |-> 2, den |-> 1]
    /\ \E k \in 1..Len(OutRows) :
          /\ OutRows[k].budget = Val(500) /\ OutRows[k].revenue.na
          /\ OutRows[k].profit_ratio.na
    /\ \E k \in 1..Len(OutRows) :
          /\ OutRows[k].budget = Val(0) /\ ~OutRows[k].revenue.na
          /\ OutRows[k].profit_ratio.na

\* C11: in every merged row budget_log is present exactly when the merged
\* budget is present and positive, and then it is log1p of the merged budget
\* (the value after the enrichment was filled in); likewise revenue_log.
C11_LogColumns ==
    OutputWritten =>
        \A k \in 1..Len(OutRows) :
            LET m == OutRows[k] IN
            /\ ~m.budget_log.na <=> (~m.budget.na /\ m.budget.v > 0)
            /\ ~m.budget_log.na => m.budget_log.log1p_of = m.budget.v
            /\ ~m.revenue_log.na <=> (~m.revenue.na /\ m.revenue.v > 0)
            /\ ~m.revenue_log.na => m.revenue_log.log1p_of = m.revenue.v

C11_Witness ==
    /\ OutputWritten
    /\ \E k \in 1..Len(OutRows) :
          /\ df[OutRows[k].src].budget.na
          /\ OutRows[k].budget = Val(500)
          /\ OutRows[k].budget_log = [na |-> FALSE, log1p_of |-> 500]
    /\ \E k \in 1..Len(OutRows) :
          /\ OutRows[k].budget = Val(0)
          /\ OutRows[k].budget_log.na
    /\ \E k \in 1..Len(OutRows) :
          /\ OutRows[k].revenue.na
          /\ OutRows[k].revenue_log.na

Finished == { i \in 1..Len(futures) : futures[i].st = "finished" }
Collected == { i \in Finished : \A k \in 1..Len(completed) : completed[k] # i }
IsPayload(ret) == ret.kind = "payload"
Loaded == IF m_pc \in {"start", "crashed", "idle"} THEN 0 ELSE Len(progress0.rows)
RecordsOf(S) == Cardinality({ i \in S : futures[i].res.kind = "rec" })

\* C12: a unit of work yields a record if and only if its detail call and its
\* credits call both returned a payload; when the detail call gives no result
\* the credits call is not issued and the unit returns None; a unit without
\* record adds nothing to the accumulated results.
C12_RecordIffBothPayloads ==
    /\ \A i \in Finished :
          LET f == futures[i] IN
          /\ f.res.kind = "rec" <=>
                (Len(f.rets) = 2 /\ IsPayload(f.rets[1]) /\ IsPayload(f.rets[2]))
          /\ f.rets[1].kind = "none" =>
                (Len(f.rets) = 1 /\ f.res.kind = "none")
    /\ Len(enriched) - Loaded <= RecordsOf(Collected)

\* C12, supporting: the same with "payload" read as "payload that is truthy"
\* (lines 69 and 77 test "not details", "not credits")
C12_RecordIffBothTruthy ==
    /\ \A i \in Finished :
          LET f == futures[i] IN
          /\ f.res.kind = "rec" <=>
                /\ Len(f.rets) = 2
                /\ IsPayload(f.rets[1]) /\ f.rets[1].truthy
                /\ IsPayload(f.rets[2]) /\ f.rets[2].truthy
          /\ f.rets[1].kind = "none" =>
                (Len(f.rets) = 1 /\ f.res.kind = "none")
    /\ Len(enriched) - Loaded <= RecordsOf(Collected)

\* records of the checkpoint file that were fetched in this run
SavedNow == Len(progress_file.rows) - Loaded
\* units whose fetch gave a record that is not in the checkpoint file
Unsaved == RecordsOf(Finished) - SavedNow
\* records appended to the accumulated list that are not in the checkpoint file
UnsavedCollected == Len(enriched) - Len(progress_file.rows)
IsPrefix(a, b) == Len(a) <= Len(b) /\ SubSeq(b, 1, Len(a)) = a

Fetched == SubSeq(enriched, Loaded + 1, Len(enriched))
TimesIn(seq, r) == Cardinality({ k \in 1..Len(seq) : seq[k] = r })
TimesGiven(S, r) == Cardinality({ i \in S : futures[i].res = [kind |-> "rec", rec |-> r] })

\* C14: the accumulated list holds the records loaded from the checkpoint
\* followed by exactly one record for each unit that has completed with a
\* record and has been taken by the collecting loop, whatever the order of
\* completion; a unit that is queued, running, or completed but not yet
\* collected has contributed nothing (no worker appends), and at the end every
\* unit that gave a record has contributed exactly one.
C14_OneRecordPerCollectedUnit ==
    m_pc \in {"collect", "merge", "done"} =>
        /\ SubSeq(enriched, 1, Loaded) = progress0.rows
        /\ Len(Fetched) = RecordsOf(Collected)
        /\ \A i \in Finished :
              futures[i].res.kind = "rec" =>
                 TimesIn(Fetched, futures[i].res.rec) = TimesGiven(Collected, futures[i].res.rec)
        /\ m_pc \in {"merge", "done"} => Collected = 1..Len(futures)

C14_Witness ==
    /\ m_pc = "done"
    /\ Len(futures) = 3
    /\ futures[2].res.kind = "exc"
    /\ Len(Fetched) = 2
    /\ Fetched[1].id = Val(3)
    /\ Fetched[2].id = Val(1)

\* C15: whenever the count of processed units reaches a multiple of
\* SAVE_INTERVAL the checkpoint file is rewritten with the whole accumulated
\* list, and at no other count; when the loop is over (every unit processed)
\* it is rewritten once more; every write keeps all records the file held
\* before, the loaded ones included, so the file never shrinks.
C15_CheckpointWrites ==
    [][ /\ processed' # processed =>
             /\ processed' = processed + 1
             /\ IF processed' % SAVE_INTERVAL = 0
                  THEN progress_file' = File(enriched')
                  ELSE progress_file' = progress_file
        /\ (m_pc = "collect" /\ m_pc' = "merge") =>
             /\ processed = Len(futures)
             /\ progress_file' = File(enriched)
        /\ progress_file' # progress_file =>
             /\ progress_file'.exists
             /\ IsPrefix(progress_file.rows, progress_file'.rows)
             /\ IsPrefix(progress0.rows, progress_file'.rows)
      ]_vars

C15_Witness ==
    /\ m_pc = "collect"
    /\ Loaded = 1
    /\ processed = SAVE_INTERVAL
    /\ Len(enriched) = 3
    /\ progress_file = File(enriched)

\* the input rows a fetch is due for: a field missing, an identifier, and
\* that identifier not in the checkpoint found at start
WorkRows ==
    { k \in 1..Len(df) : /\ df[k].budget.na \/ df[k].revenue.na
                         /\ ~df[k].id.na
                         /\ df[k].id.v \notin IdsOf(progress0.rows) }
RankIn(S, k) == Cardinality({ j \in S : j <= k })

\* C16: the submitted fetches are, in order, exactly the input rows that miss
\* budget or revenue, have an identifier, and whose identifier is not in the
\* loaded checkpoint: one fetch per such row and no other fetch.
C16_WorkSet ==
    m_pc \in {"collect", "merge", "done"} =>
        /\ Len(futures) = Cardinality(WorkRows)
        /\ \A k \in WorkRows : futures[RankIn(WorkRows, k)].id = df[k].id.v

C16_Witness ==
    /\ m_pc = "collect"
    /\ Len(df) = 2
    /\ df[1].id.na /\ df[1].budget.na
    /\ ~df[2].budget.na /\ df[2].revenue.na
    /\ Len(futures) = 1
    /\ futures[1].id = df[2].id.v
    /\ futures[1].st = "finished"

\* C17: when main merges and when the output file has been written, every
\* submitted unit has completed and has been collected, and the checkpoint
\* file holds the final accumulated list; the output file is written only at
\* the end, and every enrichment record joined into it is in that checkpoint.
C17_MergeAfterAllAndFinalSave ==
    /\ m_pc \in {"merge", "done"} =>
          /\ \A i \in 1..Len(futures) : futures[i].st = "finished"
          /\ Len(completed) = 0
          /\ processed = Len(futures)
          /\ progress_file = File(enriched)
    /\ output_file # output0 =>
          /\ m_pc = "done"
          /\ \A k \in 1..Len(OutRows) :
                OutRows[k].enr # 0 =>
                   /\ OutRows[k].enr <= Len(progress_file.rows)
                   /\ progress_file.rows[OutRows[k].enr].id = OutRows[k].id

C17_Witness ==
    /\ m_pc = "done"
    /\ OutputWritten
    /\ Len(futures) = 3
    /\ futures[1].res.kind = "none"
    /\ futures[2].res.kind = "rec"
    /\ futures[3].res.kind = "exc"
    /\ \E k \in 1..Len(OutRows) : OutRows[k].enr = 1

Raised == { i \in Finished : futures[i].res.kind = "exc" }

\* C18: when the collecting loop takes a unit that raised, the accumulated
\* list and the futures stay as they are, processed advances by one, the
\* periodic checkpoint is written or not as for any other unit, and the loop
\* goes on; a run in which a unit has raised still reaches the final save.
C18_ExceptionContained ==
    /\ [][ (/\ m_pc = "collect" /\ Len(completed) > 0
            /\ processed' # processed \/ m_pc' # m_pc
            /\ Head(completed) \in Raised) =>
              /\ enriched' = enriched
              /\ futures' = futures
              /\ processed' = processed + 1
              /\ completed' = Tail(completed)
              /\ m_pc' = "collect"
              /\ progress_file' = IF processed' % SAVE_INTERVAL = 0
                                    THEN File(enriched) ELSE progress_file
         ]_vars
    /\ (m_pc = "collect" /\ Raised # {}) ~> (m_pc = "merge" /\ progress_file = File(enriched))

C18_Witness ==
    /\ m_pc = "merge"
    /\ Len(futures) = 3
    /\ 1 \in Raised
    /\ futures[2].res.kind = "rec"
    /\ futures[3].res.kind = "rec"
    /\ processed = 3
    /\ Len(enriched) = 2
    /\ enriched[1].id = Val(2)

\* C19: at the end of a run the output file has been written if and only if
\* the accumulated list is not empty; with an empty list the checkpoint file
\* has still been rewritten (from the empty list) and the output file is what
\* the run found: not created if there was none, not modified if there was
\* one; before the end of the run the output file is never touched.
C19_OutputIffEnriched ==
    /\ m_pc # "done" => output_file = output0
    /\ m_pc = "done" =>
          /\ OutputWritten <=> Len(enriched) > 0
          /\ Len(enriched) = 0 =>
                /\ output_file = output0
                /\ progress_file = File(<<>>)

C19_Witness ==
    /\ m_pc = "done"
    /\ Len(futures) > 0
    /\ Len(enriched) = 0
    /\ progress0 = NoFile
    /\ progress_file = File(<<>>)
    /\ output0.exists
    /\ output_file = output0

SleepIdx == { i \in 1..Len(sg_log) : sg_log[i].kind = "sleep" }
LastGet == CHOOSE i \in GetIdx : \A j \in GetIdx : j <= i

\* C20: a call whose last allowed attempt ends on a transport error returns
\* None right after that request and has slept max_retries - 1 times; a call
\* whose last allowed attempt is answered 429 or 5xx sleeps once more and
\* then returns None, max_retries sleeps in all.
C20_SleepsPerFailureClass ==
    (sg_pc = "done" /\ NumGets = MAX_RETRIES) =>
        LET status == sg_log[LastGet].r.status
        IN  /\ sg_log[LastGet].exc =>
                /\ LastGet = Len(sg_log)
                /\ Cardinality(SleepIdx) = MAX_RETRIES - 1
                /\ sg_ret = [kind |-> "none", doc |-> 0]
            /\ (~sg_log[LastGet].exc /\ (status = 429 \/ (500 <= status /\ status < 600))) =>
                /\ LastGet = Len(sg_log) - 1
                /\ sg_log[Len(sg_log)].kind = "sleep"
                /\ Cardinality(SleepIdx) = MAX_RETRIES
                /\ sg_ret = [kind |-> "none", doc |-> 0]

\* C20, supporting: the same for the calls in which int(retry_after) did not
\* raise at the last attempt (see C3)
C20_SleepsUnlessRaised ==
    sg_ret # [kind |-> "raised", doc |-> 0] => C20_SleepsPerFailureClass

\* C20, supporting: five transport errors cost four sleeps; four transport
\* errors and a final 599 cost five
C20_Reached ==
    /\ sg_pc = "done"
    /\ Len(sg_log) = 2 * MAX_RETRIES
    /\ \A i \in GetIdx : sg_log[i].exc \/ i = Len(sg_log) - 1
    /\ sg_log[Len(sg_log) - 1].r.status = 599
    /\ sg_log[Len(sg_log)].secs = 16

====
